---- MODULE Spec2Model ----
(***************************************************************************)
(* Model of scripts/automated-deployment-testing.py: the EkkoTestRunner    *)
(* orchestration engine (request client with urllib3 Retry, token cache,   *)
(* run_test, the three phases, generate_report).                           *)
(***************************************************************************)
EXTENDS Integers, Sequences, FiniteSets, TLC

\* ------------------------------------------------------------------ bounds
\* Number of faults a run meets and goes on after (a faulty endpoint, a
\* check body that raises an exception, a failing log write that is caught).
\* A fault that ends the run is not counted.
MaxFaults == 1
\* Longest run of retryable answers an endpoint gives before it settles.
MaxPre == 3

\* --------------------------------------------------- session.accounts keys
Accounts ==
    {"admin", "london_manager", "manchester_manager",
     "westminster_staff", "camden_staff", "citycentre_staff"}

\* ------------------------------------------------------ the request client
\* Retry(total=3, status_forcelist=[...], allowed_methods=[...])
RetryTotal == 3
StatusForcelist_No503 == {429, 500, 502, 504}
StatusForcelist_With404 == {404, 429, 500, 502, 503, 504}
StatusForcelist == {429, 500, 502, 503, 504}
AllowedMethods == {"HEAD", "GET", "POST", "OPTIONS"}

\* What the server (or the transport) does with one HTTP attempt.
\*   ok       200, JSON body with the data the query asked for
\*   errors   200, JSON body with a top-level 'errors' field
\*   notoken  200, JSON body, no 'errors', data.login.token missing or empty
\*   badjson  200, body that is not JSON
\*   s201     201, JSON body with the data the query asked for
\*   s404     404          s401  401          s503  503
\*   conn     no response: connection failure or timeout
Resp == {"ok", "errors", "notoken", "badjson", "s201", "s401", "s404", "s503", "conn"}

Status(r) ==
    CASE r = "s201" -> 201
      [] r = "s401" -> 401
      [] r = "s404" -> 404
      [] r = "s503" -> 503
      [] r = "conn" -> 0
      [] OTHER      -> 200

\* Answers that make urllib3 try again under the configured strategy.
RetryAnswers == {"s503", "conn"}

RECURSIVE SeqsUpTo(_, _)
SeqsUpTo(S, n) ==
    IF n = 0 THEN {<<>>}
    ELSE LET shorter == SeqsUpTo(S, n - 1)
         IN  shorter \cup {Append(s, x) : s \in {t \in shorter : Len(t) = n - 1}, x \in S}

\* An endpoint answers pre[1], pre[2], ... and then answers `then` for ever.
Endpoints == [pre : SeqsUpTo(RetryAnswers, MaxPre), then : Resp]
Healthy == [pre |-> <<>>, then |-> "ok"]

\* The endpoints the requests of a run meet: each answers every attempt alike.
\* A 201 is handled as every other status that is not 200 (line 153), so the
\* run meets 401 and 404 for that case and the client alone meets 201.
RunEndpoints == {ep \in Endpoints : ep.pre = <<>> /\ ep.then # "s201"}

\* response.json() on a body that is not JSON raises an error that derives
\* from RequestException (requests >= 2.27) or a plain json.JSONDecodeError
\* (older releases): TRUE for the former.  The installed release decides.
JsonErrors(ep) == IF ep.then = "badjson" THEN BOOLEAN ELSE {TRUE}

Answer(ep, n) == IF n <= Len(ep.pre) THEN ep.pre[n] ELSE ep.then

\* urllib3 Retry.is_retry / connection-error handling for one answer.
IsRetry(method, r) ==
    IF r = "conn" THEN TRUE
    ELSE method \in AllowedMethods /\ Status(r) \in StatusForcelist

\* HTTPAdapter.send with max_retries=retry_strategy: the n-th attempt with
\* `left` retries remaining.  Retry.increment raises MaxRetryError when the
\* counter drops below zero (raise_on_status is left at its default).
RECURSIVE Send_OneMore(_, _, _, _)
Send_OneMore(method, ep, n, left) ==
    LET r == Answer(ep, n) IN
    IF IsRetry(method, r)
    THEN IF left < 0
         THEN [attempts |-> n, resp |-> r,
               error |-> IF r = "conn" THEN "ConnectionError" ELSE "RetryError"]
         ELSE Send_OneMore(method, ep, n + 1, left - 1)
    ELSE [attempts |-> n, resp |-> r, error |-> "none"]
RECURSIVE Send(_, _, _, _)
Send(method, ep, n, left) ==
    LET r == Answer(ep, n) IN
    IF IsRetry(method, r)
    THEN IF left - 1 < 0
         THEN [attempts |-> n, resp |-> r,
               error |-> IF r = "conn" THEN "ConnectionError" ELSE "RetryError"]
         ELSE Send(method, ep, n + 1, left - 1)
    ELSE [attempts |-> n, resp |-> r, error |-> "none"]

\* ------------------------------------------------------------- exceptions
\* An exception is its class and its args; arg "<none>" is "raised with no
\* arguments".  KeyboardInterrupt stands for the BaseException classes that
\* are not Exception subclasses (KeyboardInterrupt, SystemExit).
NoArg == "<none>"
Exc(cls, arg) == [cls |-> cls, arg |-> arg]
NoExc == Exc("none", NoArg)
IsException(e) == e.cls \notin {"none", "KeyboardInterrupt"}

\* str(e)
Str(e) ==
    IF e.arg = NoArg THEN ""
    ELSE IF e.cls = "KeyError" THEN
        (CASE e.arg = "data" -> "'data'" [] OTHER -> "'id'")
    ELSE e.arg

ProtocolMsg(status) ==
    CASE status = 201 -> "GraphQL request failed: 201 Created"
      [] status = 401 -> "GraphQL request failed: 401 Unauthorized"
      [] status = 404 -> "GraphQL request failed: 404 Not Found"
      [] status = 503 -> "GraphQL request failed: 503 Service Unavailable"
      [] OTHER        -> "GraphQL request failed"

\* make_graphql_request: the outcome of one call against endpoint ep.
make_graphql_request_RaisesOnErrors(ep, jsonIsRequestError) ==
    LET s == Send("POST", ep, 1, RetryTotal) IN
    IF s.error # "none"
    THEN [attempts |-> s.attempts, status |-> Status(s.resp), body |-> "none",
          exc |-> Exc("Exception", "Network request failed: max retries exceeded")]
    ELSE IF Status(s.resp) # 200
    THEN [attempts |-> s.attempts, status |-> Status(s.resp), body |-> "none",
          exc |-> Exc("Exception", ProtocolMsg(Status(s.resp)))]
    ELSE IF s.resp = "badjson"
    THEN [attempts |-> s.attempts, status |-> 200, body |-> "none",
          exc |-> IF jsonIsRequestError
                  THEN Exc("Exception", "Network request failed: invalid json")
                  ELSE Exc("Exception", "Invalid JSON response")]
    ELSE IF s.resp = "errors"
    THEN [attempts |-> s.attempts, status |-> 200, body |-> "none",
          exc |-> Exc("Exception", "GraphQL errors: [errors]")]
    ELSE [attempts |-> s.attempts, status |-> 200, body |-> s.resp, exc |-> NoExc]
make_graphql_request(ep, jsonIsRequestError) ==
    LET s == Send("POST", ep, 1, RetryTotal) IN
    IF s.error # "none"
    THEN [attempts |-> s.attempts, status |-> Status(s.resp), body |-> "none",
          exc |-> Exc("Exception", "Network request failed: max retries exceeded")]
    ELSE IF Status(s.resp) # 200
    THEN [attempts |-> s.attempts, status |-> Status(s.resp), body |-> "none",
          exc |-> Exc("Exception", ProtocolMsg(Status(s.resp)))]
    ELSE IF s.resp = "badjson"
    THEN [attempts |-> s.attempts, status |-> 200, body |-> "none",
          exc |-> IF jsonIsRequestError
                  THEN Exc("Exception", "Network request failed: invalid json")
                  ELSE Exc("Exception", "Invalid JSON response")]
    ELSE [attempts |-> s.attempts, status |-> 200, body |-> s.resp, exc |-> NoExc]

\* --------------------------------------------------------------- schedule
Auth(k) == [op |-> "auth", key |-> k]
Body(kind) == [op |-> kind, key |-> "none"]

\* run_phase1_tests, run_phase2_tests, run_phase3_tests: the run_test calls
\* in source order, each with the steps of its check function.
Schedule == <<
    [test_id |-> "P1T1", name |-> "User Authentication",
     ops |-> <<Auth("admin"), Auth("london_manager"), Auth("westminster_staff")>>],
    [test_id |-> "P1T2", name |-> "Hierarchical Permissions",
     ops |-> <<Auth("admin"), Auth("london_manager"), Body("body")>>],
    [test_id |-> "P1T3", name |-> "CQRS Routing",
     ops |-> <<Auth("admin"), Body("body")>>],
    [test_id |-> "P1T4", name |-> "Organization Tree Queries",
     ops |-> <<Auth("admin"), Body("body")>>],
    [test_id |-> "P1T5", name |-> "Role-Based Access Control",
     ops |-> <<Auth("london_manager"), Auth("westminster_staff"), Body("body")>>],
    [test_id |-> "P1T6", name |-> "Data Isolation",
     ops |-> <<Auth("london_manager"), Auth("manchester_manager"), Body("body")>>],
    [test_id |-> "P1T7", name |-> "Audit Logging",
     ops |-> <<Auth("admin"), Body("audit")>>],
    [test_id |-> "P1T8", name |-> "Error Handling",
     ops |-> <<Body("invalid_login")>>],
    [test_id |-> "P2T1", name |-> "Production Infrastructure",
     ops |-> <<Body("health"), Auth("admin"), Body("body")>>],
    [test_id |-> "P2T2", name |-> "Performance Optimization",
     ops |-> <<Auth("admin"), Body("body")>>],
    [test_id |-> "P2T3", name |-> "Advanced Permission Management",
     ops |-> <<Auth("admin"), Body("body")>>],
    [test_id |-> "P2T4", name |-> "Materialized View Refresh",
     ops |-> <<Body("refresh")>>],
    [test_id |-> "P3T1", name |-> "Create New User",
     ops |-> <<Auth("admin"), Body("body")>>],
    [test_id |-> "P3T2", name |-> "Create New Organization Node",
     ops |-> <<Auth("admin"), Body("body")>>],
    [test_id |-> "P3T3", name |-> "Grant New Permission",
     ops |-> <<Auth("admin"), Body("body")>>],
    [test_id |-> "P3T4", name |-> "Update User Information",
     ops |-> <<Auth("admin"), Body("body")>>],
    [test_id |-> "P3T5", name |-> "Update Organization Structure",
     ops |-> <<Auth("admin"), Body("body")>>],
    [test_id |-> "P3T6", name |-> "Modify Existing Permissions",
     ops |-> <<Auth("admin"), Body("body")>>],
    [test_id |-> "P3T7", name |-> "Activate/Deactivate Users",
     ops |-> <<Auth("admin"), Body("body")>>],
    [test_id |-> "P3T8", name |-> "Delete Users (Soft Delete)",
     ops |-> <<Auth("admin"), Body("body")>>],
    [test_id |-> "P3T9", name |-> "Delete Organization Nodes",
     ops |-> <<Auth("admin"), Body("body")>>],
    [test_id |-> "P3T10", name |-> "Revoke Permissions",
     ops |-> <<Auth("admin"), Body("body")>>] >>

NumTests == Len(Schedule)
ScheduledIds == [i \in 1..NumTests |-> Schedule[i].test_id]


\* ------------------------------------------------------------------ state
VARIABLES
    pc,            \* position of run(): access, sched, check, finish, report, done, crashed
    idx,           \* index in Schedule of the current / next run_test call
    step,          \* steps of the current check function already executed
    outcome,       \* what the check function raised (NoExc: returned normally)
    results,       \* session.results
    tokens,        \* session.tokens (0: no entry for the key)
    clock,         \* time.time()
    start_time,    \* run_test's local start_time
    accessible,    \* value returned by check_deployment_access
    report,        \* the document written by generate_report
    exitCode,      \* process exit status (-1: still running)
    success,       \* what run() returned to main ("none": it has not returned)
    escaped,       \* exception that propagated out of run()
    faults,        \* environment faults injected so far
    invoked,       \* history: indexes of the check functions invoked, in order
    loginLog,      \* history: per key, outcome of every login exchange
    issued,        \* history: per key, first token authenticate_user returned (0: none)
    lastCall,      \* history: the last make_graphql_request call
    lastAuth,      \* history: the last authenticate_user call
    lastRun,       \* history: the last run_test call
    suite,         \* who calls run_test: "run" (run() and its phases) or the
                   \* key of a three-check scenario
    is_production, \* self.is_production
    bypass_secret, \* os.getenv('VERCEL_PROTECTION_BYPASS') ("": unset or empty)
    http_headers   \* http_session.headers as the constructor left them

vars == <<pc, idx, step, outcome, results, tokens, clock, start_time, accessible,
          report, exitCode, success, escaped, faults, invoked,
          loginLog, issued, lastCall, lastAuth, lastRun, suite,
          is_production, bypass_secret, http_headers>>

\* what the constructor and the caller of run_test fix for the whole run
fixed == <<suite, is_production, bypass_secret, http_headers>>

\* ---------------------------------------------------------------- headers
\* lines 103-106: the default headers of http_session
DefaultHeaders ==
    [n \in {"User-Agent", "Content-Type"} |->
        IF n = "User-Agent" THEN "Ekko-Test-Runner/1.0-Python" ELSE "application/json"]

\* lines 108-117: the constructor adds the bypass header for a production
\* target when VERCEL_PROTECTION_BYPASS holds a non-empty secret ("": unset
\* or empty)
BypassHeader(secret) == [n \in {"x-vercel-protection-bypass"} |-> secret]

\* headers = {} (line 132); a request sent without a headers argument
NoHeaders == [n \in {} |-> ""]

\* f'Bearer {...}' under the name Authorization (lines 134, 428, 568)
AuthorizationHeader(credentials) == [n \in {"Authorization"} |-> "Bearer " \o credentials]

\* lines 132-134: the headers make_graphql_request passes (token 0: None)
RequestHeaders(token) ==
    IF token # 0 THEN AuthorizationHeader(ToString(token)) ELSE NoHeaders

\* line 562: the default of CRON_SECRET
CronSecret == "cron-secret"

\* What http_session sends for a request with the given headers argument:
\* the session's headers updated with the request's (line 141 logs the same
\* merge, dict(self.http_session.headers, **headers)).
MergeHeaders_SessionWins(session, caller) ==
    [n \in DOMAIN session \cup DOMAIN caller |->
        IF n \in DOMAIN session THEN session[n] ELSE caller[n]]
MergeHeaders(session, caller) ==
    [n \in DOMAIN session \cup DOMAIN caller |->
        IF n \in DOMAIN caller THEN caller[n] ELSE session[n]]

\* lines 103-117: http_session.headers after construction
SessionHeaders_NeverBypass(production, secret) == DefaultHeaders
SessionHeaders(production, secret) ==
    IF production /\ secret # ""
    THEN MergeHeaders(DefaultHeaders, BypassHeader(secret))
    ELSE DefaultHeaders

NoCall == [fn |-> "none", ep |-> Healthy, attempts |-> 0, status |-> 0,
           body |-> "none", exc |-> NoExc, headers |-> NoHeaders]
NoAuth == [key |-> "none", prior |-> 0, token |-> 0, requests |-> 0, exc |-> NoExc]
NoRun == [test |-> 0, ran |-> FALSE, check |-> NoExc, appended |-> <<>>,
          returned |-> FALSE]
NoReport == [written |-> FALSE]

\* TestSession(...) in __init__
Init ==
    /\ pc = "access"
    /\ idx = 1
    /\ step = 0
    /\ outcome = NoExc
    /\ results = <<>>
    /\ tokens = [k \in Accounts |-> 0]
    /\ clock = 0
    /\ start_time = 0
    /\ accessible = FALSE
    /\ report = NoReport
    /\ exitCode = -1
    /\ success = "none"
    /\ escaped = NoExc
    /\ faults = 0
    /\ invoked = <<>>
    /\ loginLog = [k \in Accounts |-> <<>>]
    /\ issued = [k \in Accounts |-> 0]
    /\ lastCall = NoCall
    /\ lastAuth = NoAuth
    /\ lastRun = NoRun
    /\ suite = "run"
    /\ is_production = FALSE
    /\ bypass_secret = ""
    /\ http_headers = SessionHeaders(is_production, bypass_secret)

\* The endpoint a request meets: the expected one, or a faulty one that uses
\* up one unit of the fault budget.
Meets(ep, expected) ==
    /\ ep \in Endpoints
    /\ faults + (IF ep = expected THEN 0 ELSE 1) <= MaxFaults
    /\ faults' = faults + (IF ep = expected THEN 0 ELSE 1)

\* a make_graphql_request call: the endpoint met, the headers sent with the
\* given token and what the call gave back
CallRecord(fn, ep, token, r) ==
    [fn |-> fn, ep |-> ep, attempts |-> r.attempts, status |-> r.status,
     body |-> r.body, exc |-> r.exc,
     headers |-> MergeHeaders(http_headers, RequestHeaders(token))]

\* a request sent through http_session directly: its headers
SessionCall(fn, headers) ==
    [NoCall EXCEPT !.fn = fn, !.headers = MergeHeaders(http_headers, headers)]

\* line 128: what print raises when the log cannot be written
LogError == Exc("OSError", "log write failed")

\* ------------------------------------------------ check_deployment_access
DeploymentAccess(s) ==
    IF s.error # "none" THEN FALSE
    ELSE IF Status(s.resp) \in {401, 403} THEN FALSE
    ELSE IF Status(s.resp) # 200 THEN FALSE
    ELSE TRUE

\* Every path writes one line to the log (lines 1524, 1527, 1529, 1531).  A
\* write inside the try block that raises is caught at line 1530, and the
\* write at line 1531 is inside the handler: when the log cannot be written
\* its error leaves check_deployment_access, run() and main().
check_deployment_access ==
    /\ pc = "access"
    /\ \E ep \in RunEndpoints :
         /\ Meets(ep, Healthy)
         /\ \/ /\ accessible' = DeploymentAccess(Send("GET", ep, 1, RetryTotal))
               /\ pc' = "sched"
               /\ UNCHANGED <<escaped, exitCode>>
            \/ /\ pc' = "crashed"
               /\ escaped' = LogError
               /\ exitCode' = 1
               /\ UNCHANGED accessible
    /\ lastCall' = SessionCall("access", NoHeaders)
    /\ UNCHANGED <<idx, step, outcome, results, tokens, clock, start_time, report,
                   success, invoked,
                   loginLog,
                   issued, lastAuth, lastRun>>
    /\ UNCHANGED fixed

\* ----------------------------------------------- the callers of run_test
\* Three check functions handed to run_test one after the other: one that
\* returns, one that raises Exception('boom'), one that calls
\* authenticate_user(key) twice.
ScenarioFor(key) == <<
    [test_id |-> "S1", name |-> "returns", ops |-> <<Body("return")>>],
    [test_id |-> "S2", name |-> "raises", ops |-> <<Body("raise")>>],
    [test_id |-> "S3", name |-> "authenticates twice",
     ops |-> <<Auth(key), Auth(key)>>] >>

Scenario == ScenarioFor("admin")

\* the run_test calls the caller makes, in order
schedule == IF suite = "run" THEN Schedule ELSE ScenarioFor(suite)

\* --------------------------------------------------------------- run_test

\* run_test up to the call of test_function (lines 209-213).
run_test_begin_Overlapping ==
    /\ pc \in {"sched", "finish"}
    /\ idx + (IF pc = "finish" THEN 1 ELSE 0) <= Len(schedule)
    /\ idx' = idx + (IF pc = "finish" THEN 1 ELSE 0)
    /\ start_time' = clock
    /\ clock' = clock + 1
    /\ pc' = "check"
    /\ step' = 0
    /\ outcome' = NoExc
    /\ invoked' = Append(invoked, idx')
    /\ UNCHANGED <<faults, escaped, exitCode, success, lastRun, results, tokens,
                   accessible, report, loginLog, issued, lastCall, lastAuth>>
    /\ UNCHANGED fixed
run_test_begin ==
    /\ pc = "sched"
    /\ idx <= Len(schedule)
    /\ start_time' = clock
    /\ clock' = clock + 1
    /\ \/ \* self.log succeeds and the check function is entered
          /\ pc' = "check"
          /\ step' = 0
          /\ outcome' = NoExc
          /\ invoked' = Append(invoked, idx)
          /\ UNCHANGED <<faults, escaped, exitCode, success, lastRun>>
       \/ \* self.log raises before the try block
          /\ pc' = "crashed"
          /\ escaped' = LogError
          /\ exitCode' = 1
          /\ UNCHANGED success
          /\ lastRun' = [test |-> idx, ran |-> FALSE, check |-> NoExc,
                         appended |-> <<>>, returned |-> FALSE]
          /\ UNCHANGED <<step, outcome, invoked, faults>>
    /\ UNCHANGED <<idx, results, tokens, accessible, report, loginLog, issued, lastCall, lastAuth>>
    /\ UNCHANGED fixed

CurrentOp == schedule[idx].ops[step + 1]
InCheck(kind) == pc = "check" /\ step < Len(schedule[idx].ops) /\ CurrentOp.op = kind

\* The check function goes on to its next step, or returns after its last.
Advance ==
    /\ step' = step + 1
    /\ outcome' = NoExc
    /\ pc' = IF step + 1 = Len(schedule[idx].ops) THEN "finish" ELSE "check"

\* The check function returns before its remaining steps.
ReturnEarly ==
    /\ step' = step + 1
    /\ outcome' = NoExc
    /\ pc' = "finish"

\* The check function raises e.
Raise(e) ==
    /\ step' = step + 1
    /\ outcome' = e
    /\ pc' = "finish"


\* ------------------------------------------------------ authenticate_user
\* line 168: account_key in self.session.tokens
CacheHit_Never(tok, k) == FALSE
CacheHit(tok, k) == tok[k] # 0

\* line 203: self.session.tokens[account_key] = token
StoreToken_Dropped(tok, k, t) == tok
StoreToken(tok, k, t) == [tok EXCEPT ![k] = t]

\* lines 196-200: what authenticate_user raises on the response r of its request.
LoginFailure_NoTokenCheck(r) ==
    IF r.exc # NoExc THEN r.exc
    ELSE IF r.body = "errors" THEN Exc("Exception", "Authentication failed: [errors]")
    ELSE NoExc
LoginFailure(r) ==
    IF r.exc # NoExc THEN r.exc
    ELSE IF r.body = "errors" THEN Exc("Exception", "Authentication failed: [errors]")
    ELSE IF r.body = "notoken" THEN Exc("Exception", "Login failed: No token received")
    ELSE NoExc

\* The token the server issues in its n-th login exchange for a key: every
\* exchange issues a fresh one.
ServerToken(n) == n

\* line 202: response['data']['login']['token'] of the n-th exchange for a
\* key (0: the response has none, or an empty one)
ResponseToken(r, n) == IF r.body = "notoken" THEN 0 ELSE ServerToken(n)

authenticate_user(k) ==
    /\ InCheck("auth")
    /\ CurrentOp.key = k
    /\ IF CacheHit(tokens, k)
       THEN /\ lastAuth' = [key |-> k, prior |-> issued[k], token |-> tokens[k],
                            requests |-> 0, exc |-> NoExc]
            /\ issued' = [issued EXCEPT ![k] = IF @ = 0 THEN tokens[k] ELSE @]
            /\ Advance
            /\ UNCHANGED <<tokens, loginLog, lastCall, faults>>
       ELSE \E ep \in RunEndpoints : \E j \in JsonErrors(ep) : \E logRaises \in BOOLEAN :
            LET r == make_graphql_request(ep, j)
                login == LoginFailure(r)
                \* line 204: the log write after the token was stored
                e == IF logRaises THEN LogError ELSE login
                t == ResponseToken(r, Len(loginLog[k]) + 1)
                cost == (IF ep = Healthy THEN 0 ELSE 1) + (IF logRaises THEN 1 ELSE 0)
            IN  /\ logRaises => login = NoExc
                /\ faults + cost <= MaxFaults
                /\ faults' = faults + cost
                /\ lastCall' = CallRecord("login", ep, 0, r)
                /\ loginLog' = [loginLog EXCEPT
                                  ![k] = Append(@, IF login = NoExc THEN "ok" ELSE "fail")]
                /\ tokens' = IF login = NoExc THEN StoreToken(tokens, k, t) ELSE tokens
                /\ IF e = NoExc
                   THEN /\ issued' = [issued EXCEPT ![k] = IF @ = 0 THEN t ELSE @]
                        /\ lastAuth' = [key |-> k, prior |-> issued[k], token |-> t,
                                        requests |-> 1, exc |-> NoExc]
                        /\ Advance
                   ELSE /\ lastAuth' = [key |-> k, prior |-> issued[k], token |-> 0,
                                        requests |-> 1, exc |-> e]
                        /\ Raise(e)
                        /\ UNCHANGED issued
    /\ UNCHANGED <<idx, results, clock, start_time, accessible, report, exitCode, success,
                   escaped, invoked, lastRun>>
    /\ UNCHANGED fixed

\* --------------------------------------------------------- check functions
\* What the rest of a check body can raise after its request was answered:
\* an explicit raise with a description, a raise without arguments, a lookup
\* in the response that fails, an interrupt.
BodyRaises ==
    {Exc("Exception", "boom"), Exc("Exception", NoArg), Exc("KeyError", "data"),
     Exc("KeyboardInterrupt", NoArg)}

\* A check body after its authenticate_user calls: a make_graphql_request
\* with the token, the 'errors' inspection, then the check's own conditions.
check_body ==
    /\ InCheck("body")
    /\ \E ep \in RunEndpoints : \E j \in JsonErrors(ep) :
         LET r == make_graphql_request(ep, j) IN
         /\ lastCall' = CallRecord("query", ep, lastAuth.token, r)
         /\ IF r.exc # NoExc
            THEN Meets(ep, Healthy) /\ Raise(r.exc)
            ELSE IF r.body = "errors"
            THEN Meets(ep, Healthy) /\ Raise(Exc("Exception", "query failed: [errors]"))
            ELSE \/ Meets(ep, Healthy) /\ Advance
                 \/ /\ ep = Healthy
                    /\ \E e \in BodyRaises :
                         /\ faults + (IF IsException(e) THEN 1 ELSE 0) <= MaxFaults
                         /\ faults' = faults + (IF IsException(e) THEN 1 ELSE 0)
                         /\ Raise(e)
    /\ UNCHANGED <<idx, results, tokens, clock, start_time, accessible, report,
                   exitCode, success, escaped, invoked,
                   loginLog,
                   issued, lastAuth, lastRun>>
    /\ UNCHANGED fixed

\* line 461: "Network request failed" in str(e)
IsNetworkMessage(m) ==
    m \in {"Network request failed: max retries exceeded",
           "Network request failed: invalid json"}

Rejecting == [pre |-> <<>>, then |-> "errors"]

\* test_error_handling (P1T8): a login with invalid credentials.
test_error_handling ==
    /\ InCheck("invalid_login")
    /\ \E ep \in RunEndpoints : \E j \in JsonErrors(ep) :
         LET r == make_graphql_request(ep, j)
             e == IF r.exc # NoExc THEN r.exc
                  ELSE IF r.body # "errors"
                  THEN Exc("Exception", "Expected authentication error but got success")
                  ELSE NoExc
         IN  /\ Meets(ep, Rejecting)
             /\ lastCall' = CallRecord("invalid_login", ep, 0, r)
             /\ IF e # NoExc /\ IsNetworkMessage(Str(e)) THEN Raise(e) ELSE Advance
    /\ UNCHANGED <<idx, results, tokens, clock, start_time, accessible, report,
                   exitCode, success, escaped, invoked,
                   loginLog,
                   issued, lastAuth, lastRun>>
    /\ UNCHANGED fixed

\* test_audit_logging (P1T7) after authenticate_user: the GET of /api/audit.
\* A status other than 200 and a transport failure are logged (lines 431,
\* 433, 435) and swallowed; when the log cannot be written the error of the
\* write at line 435, which is inside the handler, leaves the check.
test_audit_logging ==
    /\ InCheck("audit")
    /\ \E ep \in RunEndpoints : \E logRaises \in BOOLEAN :
         LET s == Send("GET", ep, 1, RetryTotal)
             logged == s.error # "none" \/ Status(s.resp) # 200
         IN  /\ Meets(ep, Healthy)
             /\ logRaises => logged
             /\ IF logRaises THEN Raise(LogError) ELSE Advance
    /\ lastCall' = SessionCall("audit", AuthorizationHeader(ToString(tokens["admin"])))
    /\ UNCHANGED <<idx, results, tokens, clock, start_time, accessible, report,
                   exitCode, success, escaped, invoked,
                   loginLog,
                   issued, lastAuth, lastRun>>
    /\ UNCHANGED fixed

\* test_production_infrastructure (P2T1) before authenticate_user: the GET
\* of /api/health.
test_production_infrastructure ==
    /\ InCheck("health")
    /\ \E ep \in RunEndpoints :
         LET s == Send("GET", ep, 1, RetryTotal) IN
         /\ Meets(ep, Healthy)
         /\ IF s.error # "none"
            THEN Raise(Exc("Exception", "Health check request failed"))
            ELSE IF Status(s.resp) = 404 THEN ReturnEarly
            ELSE IF Status(s.resp) # 200
            THEN Raise(Exc("Exception", "Health check failed"))
            ELSE Advance
    /\ lastCall' = SessionCall("health", NoHeaders)
    /\ UNCHANGED <<idx, results, tokens, clock, start_time, accessible, report,
                   exitCode, success, escaped, invoked,
                   loginLog,
                   issued, lastAuth, lastRun>>
    /\ UNCHANGED fixed

\* test_materialized_view_refresh (P2T4): the POST of the refresh endpoint.
test_materialized_view_refresh ==
    /\ InCheck("refresh")
    /\ \E ep \in RunEndpoints :
         LET s == Send("POST", ep, 1, RetryTotal) IN
         /\ Meets(ep, Healthy)
         /\ IF s.error # "none"
            THEN Raise(Exc("Exception", "Materialized view refresh request failed"))
            ELSE IF Status(s.resp) = 404 THEN ReturnEarly
            ELSE IF Status(s.resp) # 200
            THEN Raise(Exc("Exception", "Materialized view refresh failed"))
            ELSE Advance
    /\ lastCall' = SessionCall("refresh", AuthorizationHeader(CronSecret))
    /\ UNCHANGED <<idx, results, tokens, clock, start_time, accessible, report,
                   exitCode, success, escaped, invoked,
                   loginLog,
                   issued, lastAuth, lastRun>>
    /\ UNCHANGED fixed


\* ------------------------------------------------- run_test, after the check
TestResult(test_id, name, status, message, duration) ==
    [test_id |-> test_id, name |-> name, status |-> status, message |-> message,
     duration |-> duration]

\* line 223: except Exception
Catches_Nothing(e) == FALSE
Catches(e) == IsException(e)

\* line 225: message = str(e)
FailMessage_Fixed(e) == "Test failed"
FailMessage(e) == Str(e)

\* lines 215-221
PassResult_Skip(t, duration) ==
    TestResult(t.test_id, t.name, "SKIP", "Test completed successfully", duration)
PassResult(t, duration) ==
    TestResult(t.test_id, t.name, "PASS", "Test completed successfully", duration)

\* lines 226-232
FailResult(t, e, duration) ==
    TestResult(t.test_id, t.name, "FAIL", FailMessage(e), duration)

\* run_test returns to the phase that called it.
Returns(appended) ==
    /\ pc' = IF idx = Len(schedule) THEN "report" ELSE "sched"
    /\ idx' = idx + 1
    /\ lastRun' = [test |-> idx, ran |-> TRUE, check |-> outcome,
                   appended |-> appended, returned |-> TRUE]
    /\ UNCHANGED <<escaped, exitCode, success>>

\* An exception leaves run_test, the phase, run() and main().
Propagates(e, appended) ==
    /\ pc' = "crashed"
    /\ escaped' = e
    /\ exitCode' = 1
    /\ UNCHANGED success
    /\ lastRun' = [test |-> idx, ran |-> TRUE, check |-> outcome,
                   appended |-> appended, returned |-> FALSE]
    /\ UNCHANGED idx

\* run_test from the return of test_function (lines 214-233).
run_test_end ==
    /\ pc = "finish"
    /\ LET t == schedule[idx]
           pass == PassResult(t, clock - start_time)
           late == FailResult(t, LogError, (clock + 1) - start_time)
           fail == FailResult(t, outcome, clock - start_time)
       IN
       \/ \* the check returned; PASS is appended and logged
          /\ outcome = NoExc
          /\ results' = Append(results, pass)
          /\ clock' = clock + 1
          /\ Returns(<<pass>>)
          /\ UNCHANGED faults
       \/ \* the check returned; PASS is appended, the log write at line 222
          \* raises inside the try block and the handler appends FAIL
          /\ outcome = NoExc
          /\ Catches(LogError)
          /\ faults < MaxFaults
          /\ faults' = faults + 1
          /\ results' = results \o <<pass, late>>
          /\ clock' = clock + 2
          /\ \/ Returns(<<pass, late>>)
             \/ Propagates(LogError, <<pass, late>>)
       \/ \* the check raised an Exception; FAIL is appended and logged
          /\ outcome # NoExc
          /\ Catches(outcome)
          /\ results' = Append(results, fail)
          /\ clock' = clock + 1
          /\ \/ Returns(<<fail>>)
             \/ \* the log write at line 233 raises inside the handler
                Propagates(LogError, <<fail>>)
          /\ UNCHANGED faults
       \/ \* the check raised something the handler does not catch
          /\ outcome # NoExc
          /\ ~Catches(outcome)
          /\ Propagates(outcome, <<>>)
          /\ UNCHANGED <<results, clock, faults>>
    /\ UNCHANGED <<step, outcome, tokens, start_time, accessible, report,
                   invoked, loginLog, issued, lastCall, lastAuth>>
    /\ UNCHANGED fixed

\* -------------------------------------------------------- generate_report
CountStatus_Lower(rs, status) == Cardinality({i \in 2..Len(rs) : rs[i].status = status})
CountStatus(rs, status) == Cardinality({i \in 1..Len(rs) : rs[i].status = status})

\* lines 1594-1598: the failed-tests listing, written to the log when
\* failed > 0: one line per FAIL result, in the order of session.results
FailedListing_All(rs) ==
    [emitted |-> CountStatus(rs, "FAIL") > 0,
     lines |-> [i \in 1..Len(rs) |-> [test_id |-> rs[i].test_id, message |-> rs[i].message]]]
FailedListing(rs) ==
    LET failing == SelectSeq(rs, LAMBDA r : r.status = "FAIL")
    IN  [emitted |-> CountStatus(rs, "FAIL") > 0,
         lines |-> [i \in 1..Len(failing) |->
                      [test_id |-> failing[i].test_id, message |-> failing[i].message]]]

\* lines 1612-1621: the 'results' list of the report
ReportResults(rs) ==
    [i \in 1..Len(rs) |->
        [test_id |-> rs[i].test_id, name |-> rs[i].name, status |-> rs[i].status,
         message |-> rs[i].message, duration_ms |-> rs[i].duration * 1000]]

\* A quotient of naturals as an exact fraction in lowest terms.
RECURSIVE Gcd(_, _)
Gcd(a, b) == IF b = 0 THEN a ELSE Gcd(b, a % b)

Ratio(n, d) == [num |-> n \div Gcd(n, d), den |-> d \div Gcd(n, d)]

\* line 1584: (passed / total_tests * 100) if total_tests > 0 else 0
SuccessRate_Unscaled(passed, total_tests) ==
    IF total_tests > 0 THEN Ratio(passed, total_tests) ELSE Ratio(0, 1)
SuccessRate(passed, total_tests) ==
    IF total_tests > 0
    THEN LET q == Ratio(passed, total_tests) IN Ratio(q.num * 100, q.den)
    ELSE Ratio(0, 1)

\* lines 1578-1584 and 1601-1611
Summary(rs, now) ==
    LET total_tests == Len(rs)
        passed == CountStatus(rs, "PASS")
    IN  [total_tests |-> total_tests,
         passed |-> passed,
         failed |-> CountStatus(rs, "FAIL"),
         skipped |-> CountStatus(rs, "SKIP"),
         success_rate |-> SuccessRate(passed, total_tests),
         total_duration_ms |-> now * 1000]

\* line 1629: return failed == 0
RunSucceeded_AllPassed(rs) == CountStatus(rs, "PASS") = Len(rs)
RunSucceeded(rs) == CountStatus(rs, "FAIL") = 0

\* a Python bool as main holds it in 'success'
Bool(b) == IF b THEN "True" ELSE "False"

\* line 1682: sys.exit(0 if success else 1)
ExitCode(b) == IF b THEN 0 ELSE 1

\* lines 1624-1625: open() or json.dump fails
WriteError == Exc("OSError", "cannot write report")

\* what generate_report produces: the JSON file and the listing in the log
Report(rs, now) ==
    [written |-> TRUE, summary |-> Summary(rs, now), results |-> ReportResults(rs),
     listing |-> FailedListing(rs)]

generate_report_ClearsResults ==
    /\ pc = "report"
    /\ clock' = clock + 1
    /\ report' = Report(results, clock)
    /\ results' = <<>>
    /\ pc' = "done"
    /\ success' = Bool(RunSucceeded(results))
    /\ exitCode' = ExitCode(RunSucceeded(results))
    /\ UNCHANGED <<idx, step, outcome, tokens, start_time, accessible, escaped,
                   faults, invoked, loginLog, issued, lastCall, lastAuth, lastRun>>
    /\ UNCHANGED fixed
generate_report_SwallowsWriteError ==
    /\ pc = "report"
    /\ clock' = clock + 1
    /\ pc' = "done"
    /\ success' = Bool(RunSucceeded(results))
    /\ exitCode' = ExitCode(RunSucceeded(results))
    /\ \/ /\ report' = Report(results, clock)
          /\ escaped' = NoExc
       \/ /\ escaped' = WriteError
          /\ UNCHANGED report
    /\ UNCHANGED <<idx, step, outcome, results, tokens, start_time, accessible,
                   faults, invoked, loginLog, issued, lastCall, lastAuth, lastRun>>
    /\ UNCHANGED fixed
generate_report ==
    /\ pc = "report"
    /\ clock' = clock + 1
    /\ \/ \* the report file is written; run() returns failed == 0 to main,
          \* which exits with 0 or 1
          /\ report' = Report(results, clock)
          /\ pc' = "done"
          /\ success' = Bool(RunSucceeded(results))
          /\ exitCode' = ExitCode(RunSucceeded(results))
          /\ UNCHANGED escaped
       \/ \* a log write of lines 1586-1598 raises; nothing is written
          /\ pc' = "crashed"
          /\ escaped' = LogError
          /\ exitCode' = 1
          /\ UNCHANGED <<report, success>>
       \/ \* open() or json.dump raises (lines 1624-1625)
          /\ pc' = "crashed"
          /\ escaped' = WriteError
          /\ exitCode' = 1
          /\ UNCHANGED <<report, success>>
       \/ \* the file is written and the log write of line 1627 raises
          /\ report' = Report(results, clock)
          /\ pc' = "crashed"
          /\ escaped' = LogError
          /\ exitCode' = 1
          /\ UNCHANGED success
    /\ UNCHANGED <<idx, step, outcome, results, tokens, start_time, accessible,
                   faults, invoked, loginLog, issued, lastCall, lastAuth, lastRun>>
    /\ UNCHANGED fixed

\* ------------------------------------------------------------------ run()
Next ==
    \/ check_deployment_access
    \/ run_test_begin
    \/ \E k \in Accounts : authenticate_user(k)
    \/ check_body
    \/ test_error_handling
    \/ test_audit_logging
    \/ test_production_infrastructure
    \/ test_materialized_view_refresh
    \/ run_test_end
    \/ generate_report

Spec == Init /\ [][Next]_vars


\* ------------------------------------------------- the client on its own
\* One make_graphql_request call against an arbitrary endpoint, without a
\* token (0) or with one.
ClientTokens == {0, 1, 2}

client_call ==
    /\ \E ep \in Endpoints : \E j \in JsonErrors(ep) : \E token \in ClientTokens :
         lastCall' = CallRecord("post", ep, token, make_graphql_request(ep, j))
    /\ UNCHANGED <<pc, idx, step, outcome, results, tokens, clock, start_time,
                   accessible, report, exitCode, success, escaped, faults,
                   invoked,
                   loginLog, issued, lastAuth, lastRun>>
    /\ UNCHANGED fixed

ClientSpec == Init /\ [][client_call]_vars



\* ------------------------------------------- run_test called with three checks
\* test_function() (line 213) for a check that has nothing to do
check_returns ==
    /\ InCheck("return")
    /\ Advance
    /\ UNCHANGED <<idx, results, tokens, clock, start_time, accessible, report,
                   exitCode, success, escaped, faults, invoked, loginLog, issued,
                   lastCall, lastAuth, lastRun>>
    /\ UNCHANGED fixed

\* test_function() (line 213) for a check that raises Exception('boom')
check_raises ==
    /\ InCheck("raise")
    /\ Raise(Exc("Exception", "boom"))
    /\ UNCHANGED <<idx, results, tokens, clock, start_time, accessible, report,
                   exitCode, success, escaped, faults, invoked, loginLog, issued,
                   lastCall, lastAuth, lastRun>>
    /\ UNCHANGED fixed

ScenarioInit ==
    /\ pc = "sched"
    /\ idx = 1
    /\ step = 0
    /\ outcome = NoExc
    /\ results = <<>>
    /\ tokens = [k \in Accounts |-> 0]
    /\ clock = 0
    /\ start_time = 0
    /\ accessible = TRUE
    /\ report = NoReport
    /\ exitCode = -1
    /\ success = "none"
    /\ escaped = NoExc
    /\ faults = 0
    /\ invoked = <<>>
    /\ loginLog = [k \in Accounts |-> <<>>]
    /\ issued = [k \in Accounts |-> 0]
    /\ lastCall = NoCall
    /\ lastAuth = NoAuth
    /\ lastRun = NoRun
    /\ suite \in Accounts
    /\ is_production = FALSE
    /\ bypass_secret = ""
    /\ http_headers = SessionHeaders(is_production, bypass_secret)

ScenarioNext ==
    \/ run_test_begin
    \/ check_returns
    \/ check_raises
    \/ \E k \in Accounts : authenticate_user(k)
    \/ run_test_end

ScenarioSpec == ScenarioInit /\ [][ScenarioNext]_vars


\* ------------------------------------------ the run for every construction
\* run() of a runner constructed for a local or a production target, with or
\* without a bypass secret in the environment, against a server that answers
\* every request as expected (no fault is left in the budget).
Secrets == {"", "s3cr3t"}

ProductionInit ==
    /\ pc = "access"
    /\ idx = 1
    /\ step = 0
    /\ outcome = NoExc
    /\ results = <<>>
    /\ tokens = [k \in Accounts |-> 0]
    /\ clock = 0
    /\ start_time = 0
    /\ accessible = FALSE
    /\ report = NoReport
    /\ exitCode = -1
    /\ success = "none"
    /\ escaped = NoExc
    /\ faults = MaxFaults
    /\ invoked = <<>>
    /\ loginLog = [k \in Accounts |-> <<>>]
    /\ issued = [k \in Accounts |-> 0]
    /\ lastCall = NoCall
    /\ lastAuth = NoAuth
    /\ lastRun = NoRun
    /\ suite = "run"
    /\ is_production \in BOOLEAN
    /\ bypass_secret \in Secrets
    /\ http_headers = SessionHeaders(is_production, bypass_secret)

ProductionSpec == ProductionInit /\ [][Next]_vars

\* --------------------------------------------- generate_report on its own
\* generate_report applied to a session whose results hold any statuses the
\* TestResult dataclass allows (line 48), the empty list included.
MaxResults == 10
MaxNonPass == 2

\* the status lists of length n with at most m entries other than PASS
RECURSIVE StatusSeqs(_, _)
StatusSeqs(n, m) ==
    IF n = 0 THEN {<<>>}
    ELSE {Append(q, "PASS") : q \in StatusSeqs(n - 1, m)}
         \cup (IF m = 0 THEN {}
               ELSE {Append(q, st) : q \in StatusSeqs(n - 1, m - 1), st \in {"FAIL", "SKIP"}})

ResultMessage(st) ==
    IF st = "PASS" THEN "Test completed successfully"
    ELSE IF st = "FAIL" THEN "boom" ELSE "skipped"

SessionResults ==
    UNION {{[i \in 1..n |-> TestResult(Schedule[i].test_id, Schedule[i].name, q[i],
                                        ResultMessage(q[i]), 1)] :
               q \in StatusSeqs(n, MaxNonPass)} : n \in 0..MaxResults}

ReportInit ==
    /\ pc = "report"
    /\ idx = NumTests + 1
    /\ step = 0
    /\ outcome = NoExc
    /\ results \in SessionResults
    /\ tokens = [k \in Accounts |-> 0]
    /\ clock = 1
    /\ start_time = 0
    /\ accessible = TRUE
    /\ report = NoReport
    /\ exitCode = -1
    /\ success = "none"
    /\ escaped = NoExc
    /\ faults = 0
    /\ invoked = <<>>
    /\ loginLog = [k \in Accounts |-> <<>>]
    /\ issued = [k \in Accounts |-> 0]
    /\ lastCall = NoCall
    /\ lastAuth = NoAuth
    /\ lastRun = NoRun
    /\ suite = "run"
    /\ is_production = FALSE
    /\ bypass_secret = ""
    /\ http_headers = SessionHeaders(is_production, bypass_secret)

ReportSpec == ReportInit /\ [][generate_report]_vars



\* =================================================================== claims

C2_ExactlyOneResultPerCall ==
    lastRun.test # 0 => Len(lastRun.appended) = 1

\* C3: run_test never propagates: whenever the check raised, run_test
\* returned normally after recording one FAIL outcome.
C3_NeverPropagates ==
    (lastRun.ran /\ lastRun.check # NoExc) =>
        /\ lastRun.returned
        /\ Len(lastRun.appended) = 1
        /\ lastRun.appended[1].status = "FAIL"

\* C4 (as stated): whenever the check raised, the outcome recorded for it is
\* FAIL with a non-empty message equal to the failure's description.
C4_NonEmptyFailMessage ==
    (lastRun.ran /\ lastRun.check # NoExc) =>
        \A i \in 1..Len(lastRun.appended) :
            /\ lastRun.appended[i].status = "FAIL"
            /\ lastRun.appended[i].message # ""
            /\ lastRun.appended[i].message = Str(lastRun.check)

\* C4 (amended): whenever the check raised, every outcome recorded for it is
\* FAIL with message str(e): the description when the failure has one, the
\* empty string when it was raised without one; an Exception always has its
\* outcome recorded.
C4_FailMessageIsStr ==
    (lastRun.ran /\ lastRun.check # NoExc) =>
        /\ IsException(lastRun.check) => Len(lastRun.appended) = 1
        /\ \A i \in 1..Len(lastRun.appended) :
              /\ lastRun.appended[i].status = "FAIL"
              /\ lastRun.appended[i].message = Str(lastRun.check)
              /\ lastRun.check = Exc("Exception", "boom")
                    => lastRun.appended[i].message = "boom"
              /\ lastRun.check = Exc("Exception", NoArg)
                    => lastRun.appended[i].message = ""
              /\ lastRun.check = Exc("KeyError", "data")
                    => lastRun.appended[i].message = "'data'"

\* A check raised an exception without arguments and FAIL with the empty
\* message was recorded.
C4_Witness ==
    /\ lastRun.ran
    /\ lastRun.check = Exc("Exception", NoArg)
    /\ Len(lastRun.appended) = 1
    /\ lastRun.appended[1].status = "FAIL"
    /\ lastRun.appended[1].message = ""
    /\ results[Len(results)] = lastRun.appended[1]

\* C5: whenever the check returned normally, the only outcome recorded for
\* the test is PASS with message 'Test completed successfully'.
C5_OnlyPassForReturningCheck ==
    (lastRun.ran /\ lastRun.check = NoExc) =>
        /\ Len(lastRun.appended) = 1
        /\ lastRun.appended[1].status = "PASS"
        /\ lastRun.appended[1].message = "Test completed successfully"

\* C6: when run() reaches generate_report, session.results holds one outcome
\* per scheduled test case: 22.
C6_AllResultsAtReport ==
    pc \in {"report", "done"} => (Len(results) = NumTests /\ NumTests = 22)

\* C7: the check functions are invoked once each in schedule order, the
\* report is only reached after all of them, and a check that raised never
\* ends the run with later checks not invoked.
C7_EveryCheckInOrder ==
    /\ invoked = [i \in 1..Len(invoked) |-> i]
    /\ Len(invoked) <= NumTests
    /\ pc \in {"report", "done"} => Len(invoked) = NumTests
    /\ ~(/\ pc = "crashed"
         /\ lastRun.ran
         /\ lastRun.check # NoExc
         /\ Len(invoked) < NumTests)

\* C8: the i-th element of session.results is the outcome of the i-th
\* run_test call, and the report lists the same outcomes in the same order.
C8_ResultsInCallOrder ==
    /\ \A i \in 1..Len(results) :
          /\ i <= NumTests
          /\ results[i].test_id = Schedule[i].test_id
    /\ report.written =>
          /\ Len(report.results) = Len(results)
          /\ \A i \in 1..Len(results) :
                /\ report.results[i].test_id = results[i].test_id
                /\ report.results[i].name = results[i].name
                /\ report.results[i].status = results[i].status
                /\ report.results[i].message = results[i].message
                /\ report.results[i].duration_ms = results[i].duration * 1000

\* C9: once authenticate_user(key) has returned a token, every later
\* authenticate_user(key) returns that token and issues no request.
C9_CachedTokenReturned ==
    (lastAuth.key # "none" /\ lastAuth.prior # 0) =>
        /\ lastAuth.exc = NoExc
        /\ lastAuth.token = lastAuth.prior
        /\ lastAuth.requests = 0

\* london_manager, authenticated by an earlier check, is asked for again.
C9_Witness ==
    /\ lastAuth.key = "london_manager"
    /\ lastAuth.prior # 0
    /\ lastAuth.token = lastAuth.prior
    /\ Len(loginLog["london_manager"]) = 1

C12_ProtocolErrorForNon2xx ==
    (lastCall.fn = "post" /\ lastCall.status \notin {0, 200}) =>
        /\ lastCall.exc = Exc("Exception", ProtocolMsg(lastCall.status))
        /\ ~IsNetworkMessage(Str(lastCall.exc))

\* C13: a success status whose body is not JSON fails with 'Invalid JSON
\* response'; the handler of transport errors never takes the parse failure.
C13_DecodeErrorIsDistinct ==
    (/\ lastCall.fn = "post"
     /\ lastCall.status = 200
     /\ lastCall.exc # NoExc) =>
        /\ lastCall.exc = Exc("Exception", "Invalid JSON response")
        /\ ~IsNetworkMessage(Str(lastCall.exc))


\* C14: an authenticate_user call that performs the exchange raises, and
\* returns no token, when the request fails (transport, protocol or decode
\* error), when the response has a top-level 'errors' field, and when it has
\* no non-empty data.login.token; in every other case it returns the token
\* of the response.
C14_AuthRaisesOrReturnsToken ==
    (lastAuth.requests = 1 /\ lastCall.fn = "login") =>
        /\ lastCall.exc # NoExc =>
              lastAuth.exc = lastCall.exc /\ lastAuth.token = 0
        /\ (lastCall.exc = NoExc /\ lastCall.body = "errors") =>
              /\ lastAuth.exc = Exc("Exception", "Authentication failed: [errors]")
              /\ lastAuth.token = 0
        /\ (lastCall.exc = NoExc /\ lastCall.body = "notoken") =>
              /\ lastAuth.exc = Exc("Exception", "Login failed: No token received")
              /\ lastAuth.token = 0
        /\ (lastCall.exc = NoExc /\ lastCall.body \notin {"errors", "notoken"}) =>
              /\ lastAuth.exc = NoExc
              /\ lastAuth.token # 0
              /\ lastAuth.token = ServerToken(Len(loginLog[lastAuth.key]))

\* ---------------------------------------------------------- the report
\* the indices of session.results that hold the given status
WithStatus(status) == {i \in 1..Len(results) : results[i].status = status}

\* C15: in every report written, passed + failed + skipped equals
\* total_tests, total_tests is len(session.results), and success_rate is 0
\* when total_tests is 0.
C15_CountsAddUp ==
    report.written =>
        /\ report.summary.total_tests = Len(results)
        /\ report.summary.passed + report.summary.failed + report.summary.skipped
              = report.summary.total_tests
        /\ report.summary.total_tests = 0 => report.summary.success_rate.num = 0

\* A report was written for a session without results.
C15_Witness ==
    /\ report.written
    /\ results = <<>>
    /\ report.summary.total_tests = 0
    /\ report.summary.success_rate.num = 0

AllNonSkippedPassed ==
    \A i \in 1..Len(results) : results[i].status # "SKIP" => results[i].status = "PASS"

\* C17: once the process has ended with every log write done, run() has
\* returned True and the exit code is 0 if and only if every recorded outcome
\* that is not SKIP is PASS.
C17_ExitZeroIffAllNonSkippedPassed ==
    (pc \in {"done", "crashed"} /\ escaped # LogError) =>
        /\ exitCode = 0 <=> AllNonSkippedPassed
        /\ success = "True" <=> AllNonSkippedPassed

\* C17 (amended): when generate_report returns, run() returns True and main
\* exits with 0 if and only if every recorded outcome that is not SKIP is
\* PASS; any FAIL gives False and exit code 1; SKIP outcomes do not count.
\* When generate_report raises, run() returns nothing and the exit code is
\* not 0, whatever the outcomes are.
C17_ExitCodeWhenReportReturns ==
    /\ pc = "done" =>
          /\ success = Bool(AllNonSkippedPassed)
          /\ exitCode = (IF AllNonSkippedPassed THEN 0 ELSE 1)
          /\ WithStatus("FAIL") # {} => (success = "False" /\ exitCode = 1)
    /\ pc # "done" => (success = "none" /\ exitCode # 0)

\* run() returned True for a session that holds a SKIP outcome.
C17_Witness ==
    /\ pc = "done"
    /\ success = "True"
    /\ exitCode = 0
    /\ WithStatus("SKIP") # {}
    /\ WithStatus("PASS") # {}

\* C18: when writing the report file fails, the error leaves generate_report
\* and run(): run() returns nothing, the process does not exit with 0, no
\* report exists and the error is not recorded as an outcome, even when
\* every check passed.
C18_WriteFailurePropagates ==
    escaped = WriteError =>
        /\ pc = "crashed"
        /\ success = "none"
        /\ exitCode # 0
        /\ ~report.written
        /\ \A i \in 1..Len(results) : results[i].message # Str(WriteError)

\* All 22 checks passed and the report could not be written.
C18_Witness ==
    /\ escaped = WriteError
    /\ Len(results) = NumTests
    /\ WithStatus("PASS") = 1..NumTests
    /\ exitCode = 1

CallerHeaders ==
    {NoHeaders, AuthorizationHeader("1"),
     [n \in {"Content-Type"} |-> "text/plain"],
     [n \in {"User-Agent", "Authorization"} |->
         IF n = "User-Agent" THEN "curl/8" ELSE "Bearer 2"]}

Parseable200 ==
    /\ lastCall.fn \in {"login", "query", "invalid_login", "post"}
    /\ lastCall.status = 200
    /\ Answer(lastCall.ep, lastCall.attempts) \in {"ok", "errors", "notoken"}

\* make_graphql_request hands a parseable 200 response back as it is, with
\* or without a top-level 'errors' field
ErrorsFieldReturned ==
    Parseable200 =>
        /\ lastCall.exc = NoExc
        /\ lastCall.body = Answer(lastCall.ep, lastCall.attempts)

C23_OneCheckAtATime ==
    /\ invoked = [k \in 1..Len(invoked) |-> k]
    /\ Len(invoked) \in {idx - 1, idx}
    /\ pc \in {"check", "finish"} => Len(invoked) = idx
    /\ pc \in {"access", "sched", "report", "done"} => Len(invoked) = idx - 1
    /\ Len(invoked) >= 2 =>
          \E j \in 1..Len(results) :
              results[j].test_id = schedule[Len(invoked) - 1].test_id
    /\ pc \in {"check", "finish"} =>
          \A j \in 1..Len(results) : results[j].test_id # schedule[idx].test_id

\* The second check is executing and the outcome of the first is recorded.
C23_Witness ==
    /\ pc = "check"
    /\ invoked = <<1, 2>>
    /\ Len(results) = 1
    /\ results[1].test_id = Schedule[1].test_id

\* C24: in every reachable state the test_id values of the outcomes in
\* session.results are pairwise distinct.
C24_DistinctTestIds ==
    \A i, j \in 1..Len(results) :
        i # j => results[i].test_id # results[j].test_id

\* C25: session.results is append-only: every step leaves the list as it was
\* or extends it at the end, so each state's list is a prefix of the list of
\* every later state.
C25_ResultsAppendOnly ==
    [][/\ Len(results') >= Len(results)
       /\ \A i \in 1..Len(results) : results'[i] = results[i]]_vars

\* The report was written after 22 run_test calls and every outcome is still
\* in its place.
C25_Witness ==
    /\ report.written
    /\ Len(results) >= NumTests
    /\ Len(report.results) = Len(results)
    /\ results[1].test_id = Schedule[1].test_id
    /\ results[Len(results)].test_id = Schedule[NumTests].test_id

\* ------------------------------------------------------- the bypass header
\* C26: a runner constructed for a production target with a bypass secret
\* sends the bypass header, holding the secret, with every request of the
\* run; constructed for another target or without a secret it sends the
\* header with none.
C26_BypassHeaderOnEveryRequest ==
    lastCall.fn # "none" =>
        IF is_production /\ bypass_secret # ""
        THEN /\ "x-vercel-protection-bypass" \in DOMAIN lastCall.headers
             /\ lastCall.headers["x-vercel-protection-bypass"] = bypass_secret
        ELSE "x-vercel-protection-bypass" \notin DOMAIN lastCall.headers

\* The health probe of a production runner went out with the secret.
C26_Witness ==
    /\ is_production
    /\ bypass_secret = "s3cr3t"
    /\ lastCall.fn = "health"
    /\ lastCall.headers["x-vercel-protection-bypass"] = "s3cr3t"

C28_MutationDeliveredOnce ==
    (/\ lastCall.fn \in {"login", "invalid_login"}
     /\ \A n \in 1..lastCall.attempts : Answer(lastCall.ep, n) # "conn") =>
        lastCall.attempts <= 1

\* C29: make_graphql_request raises the protocol error exactly when the
\* final response status is not a 2xx status: a 2xx response with a
\* parseable body is returned, every other final response raises.
C29_Raises_Iff_Not2xx ==
    (lastCall.fn = "post" /\ lastCall.status # 0) =>
        LET final == Answer(lastCall.ep, lastCall.attempts)
            is2xx == lastCall.status >= 200 /\ lastCall.status < 300
        IN  /\ (is2xx /\ final # "badjson") =>
                  (lastCall.exc = NoExc /\ lastCall.body # "none")
            /\ ~is2xx => lastCall.exc # NoExc

\* ------------------------------------------------------------ termination
\* C30: no check failure makes the run stop early: a run in which a check
\* raised goes on to the checks after it and to generate_report, so run()
\* is never left by an exception while a check that raised is being recorded.
C30_CheckFailureNeverStopsRun ==
    (lastRun.ran /\ lastRun.check # NoExc) =>
        /\ pc # "crashed" \/ idx = Len(schedule) + 1
        /\ lastRun.returned

\* ------------------------------------------------------------ token cache
\* C31: an authenticate_user call that performed the exchange and raised has
\* left session.tokens without an entry for its key (the call ran because
\* there was none).
C31_FailedLoginLeavesTokens ==
    (lastAuth.requests = 1 /\ lastAuth.exc # NoExc) => tokens[lastAuth.key] = 0

\* C32: session.tokens has entries for account keys only, and every entry
\* was written by a successful authenticate_user and never replaced: the
\* token stored for a key is the one the first authenticate_user call that
\* returned for the key gave back, issued in an exchange that succeeded.
C32_TokensWrittenBySuccessfulLogin ==
    /\ DOMAIN tokens = Accounts
    /\ \A k \in Accounts :
          tokens[k] # 0 =>
              /\ issued[k] = tokens[k]
              /\ tokens[k] \in 1..Len(loginLog[k])
              /\ loginLog[k][tokens[k]] = "ok"

\* C33: every token authenticate_user stores or returns is non-empty, and
\* every query a check sends with the token authenticate_user gave it
\* carries the header 'Authorization: Bearer <token>' (compared with the
\* token right after the query was sent).
C33_AuthenticatedQueriesCarryBearer ==
    /\ (lastAuth.key # "none" /\ lastAuth.exc = NoExc) => lastAuth.token # 0
    /\ \A k \in Accounts :
          (loginLog[k] # <<>> /\ loginLog[k][Len(loginLog[k])] = "ok") => tokens[k] # 0
    /\ lastCall.fn = "query" => "Authorization" \in DOMAIN lastCall.headers
    /\ (pc \in {"check", "finish"} /\ step >= 1 /\ schedule[idx].ops[step].op = "body") =>
          /\ lastCall.fn = "query"
          /\ lastCall.headers["Authorization"] = "Bearer " \o ToString(lastAuth.token)

\* A query went out with the token of the second exchange for the key: the
\* first was answered without a token.
C33_Witness ==
    /\ lastCall.fn = "query"
    /\ lastCall.headers["Authorization"] = "Bearer 2"
    /\ \E k \in Accounts : loginLog[k] = <<"fail", "ok">> /\ tokens[k] = 2

\* ------------------------------------------------------------------ SKIP
\* C34: no outcome with status SKIP is ever recorded: every outcome in
\* session.results has status PASS or FAIL, and every report written has
\* skipped = 0 and passed + failed = total_tests.
C34_NoSkipRecorded ==
    /\ \A i \in 1..Len(results) : results[i].status \in {"PASS", "FAIL"}
    /\ report.written =>
          /\ report.summary.skipped = 0
          /\ report.summary.passed + report.summary.failed = report.summary.total_tests

\* A report of a whole run with outcomes of both kinds.
C34_Witness ==
    /\ report.written
    /\ report.summary.passed > 0
    /\ report.summary.failed > 0
    /\ report.summary.total_tests >= NumTests

\* ------------------------------------------------------- negative checks
\* C35: the run_test call of P1T8 records FAIL when the login with invalid
\* credentials was answered 200 without an 'errors' field and when the
\* request failed with a network error, and records PASS when the response
\* has an 'errors' field.
C35_InvalidLoginOutcome ==
    (lastRun.ran /\ schedule[lastRun.test].test_id = "P1T8"
                 /\ lastCall.fn = "invalid_login") =>
        LET recorded == {lastRun.appended[i].status : i \in 1..Len(lastRun.appended)}
        IN  /\ (lastCall.exc = NoExc /\ lastCall.body # "errors") => "FAIL" \in recorded
            /\ (lastCall.exc # NoExc /\ IsNetworkMessage(Str(lastCall.exc))) =>
                  "FAIL" \in recorded
            /\ (lastCall.exc = NoExc /\ lastCall.body = "errors") => "PASS" \in recorded

\* C36: the run_test call of P1T7 records FAIL exactly when
\* authenticate_user('admin') raised, and PASS and nothing else whenever it
\* returned, whatever the /api/audit request met.
C36_AuditOutcomeFollowsLogin ==
    (lastRun.ran /\ schedule[lastRun.test].test_id = "P1T7") =>
        LET recorded == {lastRun.appended[i].status : i \in 1..Len(lastRun.appended)}
        IN  /\ "FAIL" \in recorded <=> lastAuth.exc # NoExc
            /\ lastAuth.exc = NoExc => recorded = {"PASS"}

\* ------------------------------------------------ check_deployment_access
\* C37: check_deployment_access never raises (a run that was left by an
\* exception had started a run_test call), records no outcome and writes no
\* token, and whether it returned True or False the run goes on to the
\* first run_test call.
C37_AccessCheckHasNoEffect ==
    /\ pc = "crashed" => lastRun.test >= 1
    /\ (lastCall.fn = "access" /\ invoked = <<>>) =>
          /\ results = <<>>
          /\ \A k \in Accounts : tokens[k] = 0
          /\ pc \in {"access", "sched", "check", "crashed"}
          /\ idx = 1

====
